---- MODULE Spec2Model ----
(***************************************************************************)
(* Model of the expert-agent conversation engine:                          *)
(*   src/src/conversation.py    ConversationHistory (the message store)    *)
(*   src/src/engine.py          ConversationEngine.run_conversation        *)
(*   src/src/output_manager.py  OutputManager (transcript and takeaways)   *)
(* One run of run_conversation is modelled, split at its suspension points *)
(* (each `await Runner.run(...)`).  Texts are TLA+ strings, on which Len,  *)
(* Head, Tail, SubSeq and \o work character by character.                  *)
(***************************************************************************)
EXTENDS Integers, Sequences, FiniteSets, TLC

VARIABLES
    max_iterations,   \* ConversationHistory.max_iterations
    messages,         \* ConversationHistory.messages
    current_turn,     \* ConversationHistory.current_turn
    user_goal,        \* ConversationContext.user_goal
    pc,               \* position of run_conversation
    state,            \* how the loop was left: Running, Completed, Aborted
    calls,            \* log of the Runner.run invocations, in order
    fs_log,           \* log of the attempts to write a file, in order
    output_file_path, \* engine.py local output_file_path (NoPath = None)
    takeaways,        \* value returned by generate_takeaways (NoText = not called)
    result,           \* what run_conversation gave its caller
    env_key,          \* os.environ['OPENAI_API_KEY'] ("" = not set)
    op,               \* the operation last applied from outside, with its outcome
    snapshot          \* the list a caller got from get_history, as references

vars == <<max_iterations, messages, current_turn, user_goal, pc, state,
          calls, fs_log, output_file_path, takeaways, result,
          env_key, op, snapshot>>

-----------------------------------------------------------------------------
(* Bounds of the model *)

MaxTurns == 3

\* The most messages added to a store that is exercised on its own
MaxMessages == 2

\* The most files an OutputManager that is exercised on its own writes
MaxSaves == 2

\* The most turns configured where engines are constructed and then run
MaxEngineTurns == 1

-----------------------------------------------------------------------------
(* Python values and strings *)

\* A Python value as far as the code inspects it: isinstance(v, str) and,
\* for a str, its characters.
Str(s) == [is_str |-> TRUE, text |-> s]
None == [is_str |-> FALSE, text |-> ""]

IsSpace(c) == c \in {" ", "\n", "\t"}

Last(s) == SubSeq(s, Len(s), Len(s))

RECURSIVE lstrip(_)
lstrip(s) == IF Len(s) = 0 THEN s
             ELSE IF IsSpace(Head(s)) THEN lstrip(Tail(s)) ELSE s

RECURSIVE rstrip(_)
rstrip(s) == IF Len(s) = 0 THEN s
             ELSE IF IsSpace(Last(s)) THEN rstrip(SubSeq(s, 1, Len(s) - 1)) ELSE s

\* str.strip()
strip(s) == rstrip(lstrip(s))

\* str.startswith(p)
startswith(s, p) == Len(s) >= Len(p) /\ SubSeq(s, 1, Len(p)) = p

UpperChars == "ABCDEFGHIJKLMNOPQRSTUVWXYZ"
LowerChars == "abcdefghijklmnopqrstuvwxyz"

lower_char(c) ==
    IF \E i \in 1..Len(UpperChars) : SubSeq(UpperChars, i, i) = c
    THEN LET i == CHOOSE j \in 1..Len(UpperChars) : SubSeq(UpperChars, j, j) = c
         IN  SubSeq(LowerChars, i, i)
    ELSE c

\* s.replace(' ', '_').lower(), character by character
RECURSIVE slug(_)
slug(s) == IF Len(s) = 0 THEN s
           ELSE (IF Head(s) = " " THEN "_" ELSE lower_char(Head(s))) \o slug(Tail(s))

-----------------------------------------------------------------------------
(* The inference service: what one `await Runner.run(...)` can do *)

Raised(e) == [raised |-> TRUE, final_output |-> None, error |-> e]
Returned(v) == [raised |-> FALSE, final_output |-> v, error |-> ""]
Pending == [raised |-> FALSE, final_output |-> None, error |-> "pending"]

Errors == {"timeout"}

\* Replies of the Questioner (user agent), of the Responder (expert agent)
\* in the loop, and of the Responder when asked for the takeaways.
UserReplies == {None, Str(""), Str("  "), Str(" Q1? "), Str("Q2?\n")}
ExpertReplies == {None, Str(""), Str("\n "), Str(" A1.\t")}
TakeawayReplies == {None, Str(""), Str(" \n"), Str(" - point\n"), Str("Error: none")}

Outcomes(replies) == {Raised(e) : e \in Errors} \cup {Returned(v) : v \in replies}

-----------------------------------------------------------------------------
(* Configuration: the inputs of a run *)

Goals == {"Learn TLA", "go"}

NoFile == [exists |-> FALSE, name |-> "", content |-> ""]
\* history_file_path names a file that is not there
AbsentFile == [exists |-> FALSE, name |-> "missing.txt", content |-> ""]
SeedFiles == {NoFile,
              [exists |-> TRUE, name |-> "seed.txt", content |-> " \n"],
              [exists |-> TRUE, name |-> "seed.txt", content |-> " hello\n"]}

Timestamps == {"20250101_120000"}

\* The credential of the environment, where there is one
EnvKeys == {"sk-env"}

\* No operation applied from outside yet
NoArg == [none |-> TRUE]
NoOp == [name |-> "none", arg |-> NoArg, raised |-> FALSE, value |-> FALSE]

GoalPrefixLen == 30
MinPrefixLen == 5

-----------------------------------------------------------------------------
(* ConversationHistory *)

Roles == {"user", "assistant", "system"}

Message(role, content) == [role |-> role, content |-> content]

\* add_message() inserting at the front of the list
add_message_prepend(msgs, role, content) ==
    IF role \notin Roles THEN [raised |-> TRUE, messages |-> msgs]
    ELSE IF ~content.is_str THEN [raised |-> TRUE, messages |-> msgs]
    ELSE [raised |-> FALSE,
          messages |-> <<Message(role, content.text)>> \o msgs]

\* add_message() without the isinstance(content, str) check
add_message_unchecked(msgs, role, content) ==
    IF role \notin Roles THEN [raised |-> TRUE, messages |-> msgs]
    ELSE [raised |-> FALSE,
          messages |-> Append(msgs, Message(role, content.text))]

\* add_message(role, content) on the list msgs: the list afterwards, and
\* whether ValueError was raised (then the list is as it was).
add_message(msgs, role, content) ==
    IF role \notin Roles THEN [raised |-> TRUE, messages |-> msgs]
    ELSE IF ~content.is_str THEN [raised |-> TRUE, messages |-> msgs]
    ELSE [raised |-> FALSE,
          messages |-> Append(msgs, Message(role, content.text))]

\* get_history(): a copy of the list
get_history == messages

\* A list in the hands of a caller. Each element refers to a dict object:
\* ref = i > 0 is the very object at position i of self.messages, ref = 0 is
\* an object of the caller's own, held in own.
NoMessage == Message("", "")
Shared(i) == [ref |-> i, own |-> NoMessage]
Own(m) == [ref |-> 0, own |-> m]

\* self.messages.copy(): a new list object holding the same dict objects
list_copy(msgs) == [i \in 1..Len(msgs) |-> Shared(i)]

\* What a caller reads in the list it holds
deref(snap, msgs) ==
    [i \in 1..Len(snap) |->
        IF snap[i].ref > 0 THEN msgs[snap[i].ref] ELSE snap[i].own]

\* is_complete() comparing with == instead of >=
is_complete_exact == current_turn = max_iterations

\* increment_turn() counting a turn twice
increment_turn_twice == current_turn + 2

\* increment_turn(): the counter afterwards
increment_turn == current_turn + 1

\* is_complete() comparing with > instead of >=
is_complete_late == current_turn > max_iterations

\* is_complete()
is_complete == current_turn >= max_iterations

\* _load_from_file(file_path) on a fresh store: the messages afterwards
load_from_file_as_user(f) ==
    LET content == strip(f.content)
    IN  IF content # ""
        THEN add_message(<<>>, "user",
                 Str("Initial context from history file (" \o f.name
                     \o "):\n---\n" \o content \o "\n---")).messages
        ELSE <<>>

\* _load_from_file(file_path): the list after loading an existing file
load_from_file(f) ==
    LET content == strip(f.content)
    IN  IF content # ""
        THEN add_message(<<>>, "system",
                 Str("Initial context from history file (" \o f.name
                     \o "):\n---\n" \o content \o "\n---")).messages
        ELSE <<>>

\* ConversationHistory.__init__(max_iterations, history_file_path)
InitialMessages(f) == IF f.exists THEN load_from_file(f) ELSE <<>>

\* __init__ given a path with no file behind it: _load_from_file raises
\* FileNotFoundError and no store comes to be
init_raises(f) == f.name # "" /\ ~f.exists

-----------------------------------------------------------------------------
(* OutputManager *)

\* generate_filename(prefix, extension = "txt"), ts being
\* datetime.now().strftime("%Y%m%d_%H%M%S")
generate_filename(prefix, ts) == prefix \o "_" \o ts \o "." \o "txt"

\* 1-based position of the last occurrence of character c in s, 0 if none
rfind(s, c) ==
    LET hits == {i \in 1..Len(s) : SubSeq(s, i, i) = c}
    IN  IF hits = {} THEN 0 ELSE CHOOSE i \in hits : \A j \in hits : j <= i

\* Path(p).name: the final path component
path_name(p) == SubSeq(p, rfind(p, "/") + 1, Len(p))

\* Path(p).stem: the final component without its last suffix
path_stem(p) ==
    LET name == path_name(p)
        i == rfind(name, ".")
    IN  IF 1 < i /\ i < Len(name) THEN SubSeq(name, 1, i - 1) ELSE name

role_title(role) ==
    CASE role = "user" -> "User"
      [] role = "assistant" -> "Expert"
      [] role = "system" -> "System"
      [] OTHER -> role

\* The turn number computed from positions counted from 0
display_turn_from_zero(i, role) == IF role # "system" THEN i \div 2 ELSE 0

\* The turn number format_conversation prints for the i-th message (from 1)
display_turn(i, role) == IF role # "system" THEN (i + 1) \div 2 ELSE 0

\* format_conversation(history): the lines of the text, each line with its
\* number field kept as a number.  The generation time of the first line is
\* left out.
FormatLine(kind, text, n) == [kind |-> kind, text |-> text, n |-> n]

RECURSIVE format_messages(_, _)
format_messages(msgs, i) ==
    IF i > Len(msgs) THEN <<>>
    ELSE <<FormatLine("heading", role_title(msgs[i].role),
                      display_turn(i, msgs[i].role)),
           FormatLine("content", msgs[i].content, 0),
           FormatLine("blank", "", 0)>> \o format_messages(msgs, i + 1)

format_conversation(msgs, turn) ==
    IF msgs = <<>>
    THEN <<FormatLine("plain", "No conversation history available.", 0)>>
    ELSE <<FormatLine("title", "# Conversation Transcript", 0),
           FormatLine("total", "# Total Turns: ", turn),
           FormatLine("blank", "", 0)>> \o format_messages(msgs, 1)

\* One attempt to write a file: which method, the file, the text, and
\* whether open/write succeeded.
WriteAttempt(kind, name, content, ok) ==
    [kind |-> kind, name |-> name, content |-> content, ok |-> ok]

\* save_transcript(history, filename): the attempt it makes
save_transcript(filename, ok) ==
    WriteAttempt("transcript", filename,
                 format_conversation(get_history, current_turn), ok)

\* The message for an empty history without the "Error:" prefix
EmptyHistoryError_unflagged == "Cannot generate takeaways from empty history."

EmptyHistoryError == "Error: Cannot generate takeaways from empty history."
InvalidTakeawaysError == "Error: Failed to generate valid takeaways from the LLM."
TakeawaysException(e) == "Error generating takeaways: " \o e

takeaway_prompt ==
    "Based on the preceding conversation transcript where the initial goal was \""
    \o user_goal \o "\", "
    \o "please distill the key takeaways, insights, and conclusions. "
    \o "Focus on the most important information relevant to the original goal. "
    \o "Present the takeaways clearly and concisely, perhaps as bullet points."
    \o "Do not refer to yourself, just provide the takeaways."

\* The summarization call without the instruction
summarization_input_history_only == get_history

\* generate_takeaways: the input of its Runner.run call
summarization_input == get_history \o <<Message("user", takeaway_prompt)>>

\* generate_takeaways: what it returns once its Runner.run call ended with o
takeaways_of(o) ==
    IF o.raised THEN TakeawaysException(o.error)
    ELSE IF o.final_output.is_str THEN strip(o.final_output.text)
    ELSE InvalidTakeawaysError

\* save_takeaways() writing to the transcript's own file
takeaways_filename_overwrites(transcript_filename) ==
    path_name(transcript_filename)

\* save_takeaways() keeping the suffix of the transcript's name
takeaways_filename_keeps_suffix(transcript_filename) ==
    path_name(transcript_filename) \o "_takeaways.txt"

\* save_takeaways(takeaways, transcript_filename): the attempt it makes
takeaways_filename(transcript_filename) ==
    path_stem(transcript_filename) \o "_takeaways.txt"

save_takeaways(text, transcript_filename, ok) ==
    WriteAttempt("takeaways", takeaways_filename(transcript_filename),
                 <<FormatLine("title", "# Takeaways from: " \o transcript_filename, 0),
                   FormatLine("blank", "", 0),
                   FormatLine("content", text, 0)>>, ok)

-----------------------------------------------------------------------------
(* ConversationEngine.run_conversation *)

NoPath == ""
NoText == [is_str |-> FALSE, text |-> ""]

Call(agent, purpose, input) ==
    [agent |-> agent, purpose |-> purpose, input |-> input, outcome |-> Pending]

\* The log with the outcome of the outstanding (last) call filled in
Answered(log, o) == [log EXCEPT ![Len(log)].outcome = o]

\* truthy testing `is not None` only
truthy_not_none(v) == v.is_str

\* Python truth of a value that is a str or None
truthy(v) == v.is_str /\ v.text # ""

\* reply_of without the strip()
reply_of_untrimmed(o) ==
    IF o.final_output.is_str THEN Str(o.final_output.text) ELSE None

\* The local `question` / `answer` after a Runner.run call that returned
reply_of(o) ==
    IF o.final_output.is_str THEN Str(strip(o.final_output.text)) ELSE None

\* user_step treating an empty question like an empty answer
user_step_break_on_empty(o) ==
    IF o.raised THEN "break"
    ELSE IF ~truthy(reply_of(o)) THEN "break"
    ELSE "append"

\* user_step skipping the turn when the call raised
user_step_skip_on_error(o) ==
    IF o.raised THEN "skip"
    ELSE IF ~truthy(reply_of(o)) THEN "skip"
    ELSE "append"

\* user_step without the except clause
user_step_unhandled(o) ==
    IF o.raised THEN "raise"
    ELSE IF ~truthy(reply_of(o)) THEN "skip"
    ELSE "append"

\* user_step going on to the expert agent whatever the question is
user_step_append_always(o) ==
    IF o.raised THEN "break"
    ELSE "append"

\* What the iteration does once the user agent's call ended with o
user_step(o) ==
    IF o.raised THEN "break"
    ELSE IF ~truthy(reply_of(o)) THEN "skip"
    ELSE "append"

\* expert_step without the except clause
expert_step_unhandled(o) ==
    IF o.raised THEN "raise"
    ELSE IF ~truthy(reply_of(o)) THEN "break"
    ELSE "append"

\* What the iteration does once the expert agent's call ended with o
expert_step(o) ==
    IF o.raised THEN "break"
    ELSE IF ~truthy(reply_of(o)) THEN "break"
    ELSE "append"

\* `return` written for `break`
after_break_returns == "done"

\* Where `break` leads: the statements after the loop
after_break == "save"

\* The user agent's input without the substitute for an empty history
user_agent_input_history_only == get_history

\* The input of the user agent's call
user_agent_input ==
    IF get_history = <<>>
    THEN <<Message("system", "The conversation goal is: " \o user_goal)>>
    ELSE get_history

\* The prefix of the transcript's filename
goal_prefix ==
    LET cut == SubSeq(user_goal, 1,
                      IF Len(user_goal) < GoalPrefixLen THEN Len(user_goal)
                      ELSE GoalPrefixLen)
        p == slug(cut)
    IN  IF Len(p) < MinPrefixLen THEN "conversation" ELSE p

\* The test the engine makes on the value generate_takeaways returned
is_generation_error(t) == startswith(t, "Error:")

\* The engine's handling of the value t that generate_takeaways returned:
\* the write log afterwards (save_takeaways is called unless t is an error)
after_takeaways(log, t, path, ok) ==
    IF ~is_generation_error(t)
    THEN Append(log, save_takeaways(t, path_name(path), ok))
    ELSE log

\* output_file_path assigned before the transcript is written
saved_path_despite_failure(filename, ok) == filename

\* The local output_file_path after the try block that saves the transcript:
\* the path save_transcript returned, or still None when it raised
saved_path(filename, ok) == IF ok THEN filename ELSE NoPath

\* cli.main: the exit status of the process, given how run_conversation ended
cli_exit(r) == IF r = "raised" THEN 1 ELSE 0

Init ==
    /\ max_iterations \in 1..MaxTurns
    /\ \E f \in SeedFiles : messages = InitialMessages(f)
    /\ current_turn = 0
    /\ user_goal \in Goals
    /\ pc = "loop"
    /\ state = "NotStarted"
    /\ calls = <<>>
    /\ fs_log = <<>>
    /\ output_file_path = NoPath
    /\ takeaways = NoText
    /\ result = "none"
    /\ env_key \in EnvKeys
    /\ op = NoOp
    /\ snapshot = <<>>

\* The while test fails: the loop is left normally
LoopComplete ==
    /\ pc = "loop"
    /\ is_complete
    /\ state' = "Completed"
    /\ pc' = "save"
    /\ UNCHANGED <<env_key, op, snapshot>>
    /\ UNCHANGED <<max_iterations, messages, current_turn, user_goal, calls,
                   fs_log, output_file_path, takeaways, result>>

\* The while test passes: the iteration starts and calls the user agent
StartTurn ==
    /\ pc = "loop"
    /\ ~is_complete
    /\ state' = "Running"
    /\ calls' = Append(calls, Call("user_agent", "question", user_agent_input))
    /\ pc' = "await_user"
    /\ UNCHANGED <<env_key, op, snapshot>>
    /\ UNCHANGED <<max_iterations, messages, current_turn, user_goal,
                   fs_log, output_file_path, takeaways, result>>

\* The user agent's call ends; on a usable question the expert agent is called
UserAgentReturns ==
    /\ pc = "await_user"
    /\ \E o \in Outcomes(UserReplies) :
         LET added == add_message(messages, "user", reply_of(o))
         IN  CASE user_step(o) = "break" ->
                    /\ calls' = Answered(calls, o)
                    /\ state' = "Aborted"
                    /\ pc' = after_break
                    /\ UNCHANGED <<messages, current_turn, result>>
               [] user_step(o) = "skip" ->
                    /\ calls' = Answered(calls, o)
                    /\ current_turn' = increment_turn
                    /\ pc' = "loop"
                    /\ UNCHANGED <<messages, state, result>>
               [] user_step(o) = "append" /\ ~added.raised ->
                    /\ messages' = added.messages
                    /\ calls' = Append(Answered(calls, o),
                                       Call("expert_agent", "answer", added.messages))
                    /\ pc' = "await_expert"
                    /\ UNCHANGED <<current_turn, state, result>>
               [] OTHER ->  \* an exception leaves run_conversation
                    /\ calls' = Answered(calls, o)
                    /\ result' = "raised"
                    /\ pc' = "done"
                    /\ UNCHANGED <<messages, current_turn, state>>
    /\ UNCHANGED <<env_key, op, snapshot>>
    /\ UNCHANGED <<max_iterations, user_goal, fs_log, output_file_path, takeaways>>

\* The expert agent's call ends
ExpertAgentReturns ==
    /\ pc = "await_expert"
    /\ \E o \in Outcomes(ExpertReplies) :
         LET added == add_message(messages, "assistant", reply_of(o))
         IN  CASE expert_step(o) = "break" ->
                    /\ calls' = Answered(calls, o)
                    /\ state' = "Aborted"
                    /\ pc' = after_break
                    /\ UNCHANGED <<messages, current_turn, result>>
               [] expert_step(o) = "append" /\ ~added.raised ->
                    /\ calls' = Answered(calls, o)
                    /\ messages' = added.messages
                    /\ current_turn' = increment_turn
                    /\ pc' = "loop"
                    /\ UNCHANGED <<state, result>>
               [] OTHER ->  \* an exception leaves run_conversation
                    /\ calls' = Answered(calls, o)
                    /\ result' = "raised"
                    /\ pc' = "done"
                    /\ UNCHANGED <<messages, current_turn, state>>
    /\ UNCHANGED <<env_key, op, snapshot>>
    /\ UNCHANGED <<max_iterations, user_goal, fs_log, output_file_path, takeaways>>

\* After the loop: the transcript is saved and, if that worked,
\* generate_takeaways is entered (up to its Runner.run call, if it makes one)
SaveTranscript ==
    /\ pc = "save"
    /\ \E ts \in Timestamps, ok \in BOOLEAN, ok2 \in BOOLEAN :
         LET transcript_filename == generate_filename(goal_prefix, ts)
             saved == Append(fs_log, save_transcript(transcript_filename, ok))
             path == saved_path(transcript_filename, ok)
         IN  IF path = NoPath
             THEN /\ fs_log' = saved
                  /\ result' = "history"
                  /\ pc' = "done"
                  /\ UNCHANGED <<output_file_path, takeaways, calls>>
             ELSE /\ output_file_path' = path
                  /\ IF get_history = <<>>
                     THEN /\ takeaways' = Str(EmptyHistoryError)
                          /\ fs_log' = after_takeaways(saved, EmptyHistoryError,
                                                       path, ok2)
                          /\ result' = "history"
                          /\ pc' = "done"
                          /\ UNCHANGED calls
                     ELSE /\ fs_log' = saved
                          /\ calls' = Append(calls, Call("expert_agent", "takeaways",
                                                         summarization_input))
                          /\ pc' = "await_takeaways"
                          /\ UNCHANGED <<takeaways, result>>
    /\ UNCHANGED <<env_key, op, snapshot>>
    /\ UNCHANGED <<max_iterations, messages, current_turn, user_goal, state>>

\* The summarization call ends: generate_takeaways returns, the takeaways
\* are saved unless they are an error, and run_conversation returns
TakeawaysReturns ==
    /\ pc = "await_takeaways"
    /\ \E o \in Outcomes(TakeawayReplies), ok \in BOOLEAN :
         /\ calls' = Answered(calls, o)
         /\ takeaways' = Str(takeaways_of(o))
         /\ fs_log' = after_takeaways(fs_log, takeaways_of(o), output_file_path, ok)
    /\ result' = "history"
    /\ pc' = "done"
    /\ UNCHANGED <<env_key, op, snapshot>>
    /\ UNCHANGED <<max_iterations, messages, current_turn, user_goal, state,
                   output_file_path>>

Next ==
    \/ LoopComplete
    \/ StartTurn
    \/ UserAgentReturns
    \/ ExpertAgentReturns
    \/ SaveTranscript
    \/ TakeawaysReturns

Spec == Init /\ [][Next]_vars

\* Each step of a run is taken once it can be: the event loop resumes the
\* coroutine when the awaited call ends.
FairSpec == Spec /\ WF_vars(Next)

------------------------------------------------------------------------------
(* ConversationHistory on its own: a caller constructs a store and applies  *)
(* its operations one at a time, as the module's test block does            *)

run_vars == <<user_goal, state, calls, fs_log, output_file_path, takeaways,
              result, env_key>>

Operation(name, arg, raised, value) ==
    [name |-> name, arg |-> arg, raised |-> raised, value |-> value]

\* What callers pass to add_message
CallerRoles == Roles \cup {"invalid_role"}
CallerContents == {Str("hi"), Str(""), None}

\* What a caller writes into a list it was handed
EditedMessage(m, field) ==
    IF field = "role" THEN [m EXCEPT !.role = "system"]
    ELSE [m EXCEPT !.content = ""]

StoreInit ==
    /\ max_iterations \in 1..MaxTurns
    /\ messages = <<>>
    /\ current_turn = 0
    /\ user_goal \in {"go"}
    /\ pc = "new"
    /\ state = "NotStarted"
    /\ calls = <<>>
    /\ fs_log = <<>>
    /\ output_file_path = NoPath
    /\ takeaways = NoText
    /\ result = "none"
    /\ env_key \in EnvKeys
    /\ op = NoOp
    /\ snapshot = <<>>

\* ConversationHistory(max_iterations, history_file_path)
NewStore ==
    /\ pc = "new"
    /\ \E f \in SeedFiles \cup {AbsentFile} :
         IF init_raises(f)
         THEN /\ pc' = "no_store"
              /\ op' = Operation("__init__", [file |-> f], TRUE, FALSE)
              /\ UNCHANGED messages
         ELSE /\ pc' \in {"adding", "counting"}
              /\ op' = Operation("__init__", [file |-> f], FALSE, FALSE)
              /\ messages' = InitialMessages(f)
    /\ current_turn' = 0
    /\ snapshot' = <<>>
    /\ UNCHANGED <<max_iterations, run_vars>>

\* history.add_message(role, content)
AddMessage ==
    /\ pc = "adding"
    /\ Len(messages) < MaxMessages
    /\ \E role \in CallerRoles, content \in CallerContents :
         LET r == add_message(messages, role, content)
         IN  /\ messages' = r.messages
             /\ op' = Operation("add_message",
                                [role |-> role, content |-> content],
                                r.raised, FALSE)
    /\ UNCHANGED <<max_iterations, current_turn, pc, snapshot, run_vars>>

\* snap = history.get_history()
GetHistory ==
    /\ pc = "adding"
    /\ snapshot' = list_copy(get_history)
    /\ op' = Operation("get_history", NoArg, FALSE, FALSE)
    /\ UNCHANGED <<max_iterations, messages, current_turn, pc, run_vars>>

\* snap.append({...}): the caller's list grows by a dict of the caller's
SnapshotAppend ==
    /\ pc = "adding"
    /\ \A i \in 1..Len(snapshot) : snapshot[i].ref > 0
    /\ snapshot' = Append(snapshot, Own(Message("user", "extra")))
    /\ op' = Operation("snapshot.append", NoArg, FALSE, FALSE)
    /\ UNCHANGED <<max_iterations, messages, current_turn, pc, run_vars>>

\* snap.pop()
SnapshotPop ==
    /\ pc = "adding"
    /\ snapshot # <<>>
    /\ snapshot' = SubSeq(snapshot, 1, Len(snapshot) - 1)
    /\ op' = Operation("snapshot.pop", NoArg, FALSE, FALSE)
    /\ UNCHANGED <<max_iterations, messages, current_turn, pc, run_vars>>

\* snap[i]['role'] = ... or snap[i]['content'] = ...: the assignment lands in
\* the dict object that element i refers to
SnapshotEdit ==
    /\ pc = "adding"
    /\ \E i \in 1..Len(snapshot), field \in {"role", "content"} :
         LET ref == snapshot[i].ref
         IN  IF ref > 0
             THEN /\ messages' = [messages EXCEPT
                                     ![ref] = EditedMessage(messages[ref], field)]
                  /\ UNCHANGED snapshot
             ELSE /\ snapshot' = [snapshot EXCEPT
                                     ![i].own = EditedMessage(snapshot[i].own, field)]
                  /\ UNCHANGED messages
    /\ op' = Operation("snapshot.edit", NoArg, FALSE, FALSE)
    /\ UNCHANGED <<max_iterations, current_turn, pc, run_vars>>

\* history.increment_turn()
IncrementTurn ==
    /\ pc = "counting"
    /\ current_turn <= MaxTurns
    /\ current_turn' = increment_turn
    /\ op' = Operation("increment_turn", NoArg, FALSE, FALSE)
    /\ UNCHANGED <<max_iterations, messages, pc, snapshot, run_vars>>

\* history.is_complete()
IsComplete ==
    /\ pc = "counting"
    /\ op' = Operation("is_complete", NoArg, FALSE, is_complete)
    /\ UNCHANGED <<max_iterations, messages, current_turn, pc, snapshot, run_vars>>

StoreNext ==
    \/ NewStore
    \/ AddMessage
    \/ GetHistory
    \/ SnapshotAppend
    \/ SnapshotPop
    \/ SnapshotEdit
    \/ IncrementTurn
    \/ IsComplete

StoreSpec == StoreInit /\ [][StoreNext]_vars

------------------------------------------------------------------------------
(* OutputManager on its own: a caller saves takeaways for transcripts of    *)
(* its choosing                                                             *)

TranscriptNames ==
    {"go_20250101_120000.txt", "a.b.txt", "noext", ".hidden", "a.", "out/f.txt"}

TakeawayTexts == {"- point", ""}

OutputInit ==
    /\ max_iterations \in {1}
    /\ messages = <<>>
    /\ current_turn = 0
    /\ user_goal \in {"go"}
    /\ pc = "output"
    /\ state = "NotStarted"
    /\ calls = <<>>
    /\ fs_log = <<>>
    /\ output_file_path = NoPath
    /\ takeaways = NoText
    /\ result = "none"
    /\ env_key \in EnvKeys
    /\ op = NoOp
    /\ snapshot = <<>>

\* output_manager.save_takeaways(takeaways, transcript_filename)
SaveTakeaways ==
    /\ pc = "output"
    /\ Len(fs_log) < MaxSaves
    /\ \E text \in TakeawayTexts, name \in TranscriptNames, ok \in BOOLEAN :
         /\ fs_log' = Append(fs_log, save_takeaways(text, name, ok))
         /\ op' = Operation("save_takeaways",
                            [takeaways |-> text, transcript_filename |-> name],
                            ~ok, FALSE)
    /\ UNCHANGED <<max_iterations, messages, current_turn, user_goal, pc, state,
                   calls, output_file_path, takeaways, result, env_key, snapshot>>

\* datetime.now() in the seconds of the clock, in their order
ClockSeconds == <<"20250101_120000", "20250101_120001">>

\* The prefixes runs make of their goals
Prefixes == {"conversation", "learn_tla"}

\* The latest second a transcript filename was generated in (0: none yet)
LatestSecond ==
    LET used == {k \in 1..Len(ClockSeconds) :
                    \E i \in 1..Len(fs_log), prefix \in Prefixes :
                        /\ fs_log[i].kind = "transcript"
                        /\ fs_log[i].name = generate_filename(prefix, ClockSeconds[k])}
    IN  IF used = {} THEN 0 ELSE CHOOSE k \in used : \A j \in used : j <= k

\* The end of a run in this output directory: a filename is generated from
\* the run's prefix and the time of the call, and the transcript is saved
SaveNewTranscript ==
    /\ pc = "output"
    /\ Len(fs_log) < MaxSaves
    /\ \E prefix \in Prefixes, k \in 1..Len(ClockSeconds), ok \in BOOLEAN :
         LET transcript_filename == generate_filename(prefix, ClockSeconds[k])
         IN  /\ k >= LatestSecond
             /\ fs_log' = Append(fs_log, save_transcript(transcript_filename, ok))
             /\ op' = Operation("save_transcript",
                                [prefix |-> prefix, second |-> k,
                                 filename |-> transcript_filename],
                                ~ok, FALSE)
    /\ UNCHANGED <<max_iterations, messages, current_turn, user_goal, pc, state,
                   calls, output_file_path, takeaways, result, env_key, snapshot>>

OutputNext ==
    \/ SaveTakeaways
    \/ SaveNewTranscript

OutputSpec == OutputInit /\ [][OutputNext]_vars

------------------------------------------------------------------------------
(* A process that constructs an engine from a configuration and runs it *)

\* config.openai_api_key
ConfigKeys == {None, Str(""), Str("sk-config")}

\* _set_openai_key() that keeps a credential the environment already has
set_openai_key_keeps_first(api_key, env) ==
    IF truthy(api_key)
    THEN [raised |-> FALSE, env |-> IF env = "" THEN api_key.text ELSE env]
    ELSE IF env = "" THEN [raised |-> TRUE, env |-> env]
    ELSE [raised |-> FALSE, env |-> env]

\* _set_openai_key() that never raises
set_openai_key_unchecked(api_key, env) ==
    IF truthy(api_key) THEN [raised |-> FALSE, env |-> api_key.text]
    ELSE [raised |-> FALSE, env |-> env]

\* _set_openai_key(api_key) with OPENAI_API_KEY = env: whether ValueError is
\* raised, and OPENAI_API_KEY afterwards
set_openai_key(api_key, env) ==
    IF truthy(api_key) THEN [raised |-> FALSE, env |-> api_key.text]
    ELSE IF env = "" THEN [raised |-> TRUE, env |-> env]
    ELSE [raised |-> FALSE, env |-> env]

\* create_user_agent(config), create_expert_agent(config)
create_user_agent(api_key, env) == set_openai_key(api_key, env)
create_expert_agent(api_key, env) == set_openai_key(api_key, env)

\* ConversationEngine(config): the exception that leaves __init__, if any,
\* and OPENAI_API_KEY afterwards
engine_init(api_key, env, f, mkdir_ok) ==
    LET user == create_user_agent(api_key, env)
        expert == create_expert_agent(api_key, user.env)
    IN  IF init_raises(f) THEN [raised |-> "FileNotFoundError", env |-> env]
        ELSE IF ~mkdir_ok THEN [raised |-> "RuntimeError", env |-> env]
        ELSE IF user.raised THEN [raised |-> "RuntimeError", env |-> user.env]
        ELSE IF expert.raised THEN [raised |-> "RuntimeError", env |-> expert.env]
        ELSE [raised |-> "", env |-> expert.env]

EngineInit ==
    /\ max_iterations \in 1..MaxEngineTurns
    /\ messages = <<>>
    /\ current_turn = 0
    /\ user_goal \in {"go"}
    /\ pc = "new"
    /\ state = "NotStarted"
    /\ calls = <<>>
    /\ fs_log = <<>>
    /\ output_file_path = NoPath
    /\ takeaways = NoText
    /\ result = "none"
    /\ env_key \in EnvKeys \cup {""}
    /\ op = NoOp
    /\ snapshot = <<>>

\* engine = ConversationEngine(config), and where it succeeds the process
\* goes on to engine.run_conversation()
NewEngine ==
    /\ pc = "new"
    /\ \E api_key \in ConfigKeys, f \in {NoFile, AbsentFile}, mkdir_ok \in BOOLEAN :
         LET r == engine_init(api_key, env_key, f, mkdir_ok)
         IN  /\ op' = Operation("ConversationEngine",
                                [api_key |-> api_key, env |-> env_key,
                                 file |-> f, mkdir_ok |-> mkdir_ok],
                                r.raised # "", FALSE)
             /\ env_key' = r.env
             /\ IF r.raised # ""
                THEN pc' = "no_engine" /\ UNCHANGED messages
                ELSE pc' = "loop" /\ messages' = InitialMessages(f)
    /\ UNCHANGED <<max_iterations, current_turn, user_goal, state, calls, fs_log,
                   output_file_path, takeaways, result, snapshot>>

\* config.openai_api_key of a configuration loaded later in the process
LaterKeys == {None, Str("sk-other")}

\* create_user_agent(other_config), called by other code of the process while
\* the engine's run waits for an inference call
OtherAgent ==
    /\ pc \in {"await_user", "await_expert", "await_takeaways"}
    /\ \E api_key \in LaterKeys :
         LET r == create_user_agent(api_key, env_key)
         IN  /\ op' = Operation("create_user_agent",
                                [api_key |-> api_key, env |-> env_key],
                                r.raised, FALSE)
             /\ env_key' = r.env
    /\ UNCHANGED <<max_iterations, messages, current_turn, user_goal, pc, state,
                   calls, fs_log, output_file_path, takeaways, result, snapshot>>

EngineNext ==
    \/ NewEngine
    \/ OtherAgent
    \/ Next

EngineSpec == EngineInit /\ [][EngineNext]_vars

-----------------------------------------------------------------------------
(* What the properties below speak of *)

IsQuestionCall(c) == c.purpose = "question"
IsAnswerCall(c) == c.purpose = "answer"
IsLoopCall(c) == c.purpose # "takeaways"
IsTakeawaysCall(c) == c.purpose = "takeaways"

UserCalls == SelectSeq(calls, IsQuestionCall)
ExpertCalls == SelectSeq(calls, IsAnswerCall)
LoopCalls == SelectSeq(calls, IsLoopCall)
TakeawaysCalls == SelectSeq(calls, IsTakeawaysCall)

\* The service returned text that is not empty once trimmed
UsableOutcome(o) ==
    /\ ~o.raised
    /\ o.error = ""
    /\ o.final_output.is_str
    /\ strip(o.final_output.text) # ""

\* The service returned text that is empty once trimmed
EmptyOutcome(o) ==
    /\ ~o.raised
    /\ o.error = ""
    /\ o.final_output.is_str
    /\ strip(o.final_output.text) = ""

\* The service returned something that is not text
NonTextOutcome(o) == ~o.raised /\ o.error = "" /\ ~o.final_output.is_str

RaisedOutcome(o) == o.raised

LoopExited == pc \in {"save", "await_takeaways", "done"}

IsUser(m) == m.role = "user"
IsAssistant(m) == m.role = "assistant"
IsSystem(m) == m.role = "system"

Unseeded == \A i \in 1..Len(messages) : ~IsSystem(messages[i])

\* The messages the loop appended (the seed is the only system message)
Appended == SelectSeq(messages, LAMBDA m : ~IsSystem(m))

TrimmedReply(call) == strip(call.outcome.final_output.text)

-----------------------------------------------------------------------------
(* C1 *)

AllRepliesUsable ==
    \A i \in 1..Len(LoopCalls) : UsableOutcome(LoopCalls[i].outcome)

\* C1: started on an empty history with both roles always giving usable
\* text, a run with max turns N leaves the loop Completed after exactly N
\* exchanges: the history is Q1, A1, ..., QN, AN, the trimmed replies in the
\* order of the calls, and the turn counter is N.
C1_ExactlyNExchanges ==
    (LoopExited /\ Unseeded /\ AllRepliesUsable) =>
        /\ state = "Completed"
        /\ current_turn = max_iterations
        /\ Len(UserCalls) = max_iterations
        /\ Len(ExpertCalls) = max_iterations
        /\ Len(messages) = 2 * max_iterations
        /\ \A i \in 1..max_iterations :
             /\ messages[2 * i - 1] = Message("user", TrimmedReply(UserCalls[i]))
             /\ messages[2 * i] = Message("assistant", TrimmedReply(ExpertCalls[i]))

C1_Witness ==
    /\ pc = "done"
    /\ Unseeded
    /\ AllRepliesUsable
    /\ max_iterations >= 2
    /\ Len(messages) = 2 * max_iterations
    /\ messages[1].content # messages[3].content

-----------------------------------------------------------------------------
(* C2 *)

\* C2: when the Responder's call raises on turn k and all earlier calls gave
\* usable replies, the loop is left Aborted with k questions and k-1 answers
\* in the history, the k-th question being the last message, and that call
\* is the last call of the loop.
C2_ResponderFailure ==
    \A j \in 1..Len(LoopCalls) :
        ( /\ IsAnswerCall(LoopCalls[j])
          /\ RaisedOutcome(LoopCalls[j].outcome)
          /\ \A i \in 1..(j - 1) : UsableOutcome(LoopCalls[i].outcome) ) =>
            LET k == j \div 2
            IN  /\ j = Len(LoopCalls)
                /\ LoopExited
                /\ state = "Aborted"
                /\ result # "raised"
                /\ Len(SelectSeq(messages, IsUser)) = k
                /\ Len(SelectSeq(messages, IsAssistant)) = k - 1
                /\ messages[Len(messages)] =
                       Message("user", TrimmedReply(LoopCalls[j - 1]))
                /\ current_turn = k - 1

C2_Witness ==
    /\ pc = "done"
    /\ Len(LoopCalls) = 4
    /\ RaisedOutcome(LoopCalls[4].outcome)
    /\ \A i \in 1..3 : UsableOutcome(LoopCalls[i].outcome)
    /\ state = "Aborted"

-----------------------------------------------------------------------------
(* C3 *)

\* C3: when the Questioner gives empty text on exactly one turn k and every
\* other reply of either role is usable, the loop is left Completed with the
\* counter at N; turn k appended nothing and made no Responder call, so the
\* loop appended N-1 question/answer pairs.
C3_OneEmptyQuestion ==
    \A k \in 1..Len(UserCalls) :
        ( /\ LoopExited
          /\ EmptyOutcome(UserCalls[k].outcome)
          /\ \A j \in 1..Len(UserCalls) :
               j # k => UsableOutcome(UserCalls[j].outcome)
          /\ \A j \in 1..Len(ExpertCalls) : UsableOutcome(ExpertCalls[j].outcome) ) =>
            /\ state = "Completed"
            /\ current_turn = max_iterations
            /\ Len(UserCalls) = max_iterations
            /\ Len(ExpertCalls) = max_iterations - 1
            /\ Len(Appended) = 2 * (max_iterations - 1)
            /\ \A i \in 1..(max_iterations - 1) :
                 /\ Appended[2 * i - 1] =
                        Message("user",
                                TrimmedReply(UserCalls[IF i < k THEN i ELSE i + 1]))
                 /\ Appended[2 * i] = Message("assistant", TrimmedReply(ExpertCalls[i]))
            \* the call that follows the k-th question call is the next
            \* question call, made on the same history
            /\ IsQuestionCall(LoopCalls[2 * k - 1])
            /\ k < max_iterations =>
                 /\ IsQuestionCall(LoopCalls[2 * k])
                 /\ LoopCalls[2 * k].input = LoopCalls[2 * k - 1].input

C3_Witness ==
    /\ pc = "done"
    /\ state = "Completed"
    /\ max_iterations = 3
    /\ Len(UserCalls) = 3
    /\ Len(ExpertCalls) = 2
    /\ UserCalls[2].outcome = Returned(Str(""))
    /\ UsableOutcome(UserCalls[1].outcome)
    /\ UsableOutcome(UserCalls[3].outcome)
    /\ Len(Appended) = 4

-----------------------------------------------------------------------------
(* C4, C5 *)

\* How the outstanding call ended, seen from the step that handles it
Ended == calls'[Len(calls)].outcome

\* The step changes nothing of the store and makes no call
StoreAndCallsKept ==
    /\ messages' = messages
    /\ current_turn' = current_turn
    /\ Len(calls') = Len(calls)

\* Once the loop is Aborted it stays so, the store is not touched again and
\* neither role is called for another turn
NoTurnAfterAbort ==
    state = "Aborted" =>
        /\ state' = "Aborted"
        /\ messages' = messages
        /\ current_turn' = current_turn
        /\ SelectSeq(calls', IsLoopCall) = LoopCalls

\* C4: when the Questioner's call raises, the step that handles it appends
\* nothing, leaves the counter alone, calls no one and leaves the loop
\* Aborted; no turn follows, and the unchanged history is what is returned.
C4_QuestionerFailureAborts ==
    [][ /\ (pc = "await_user" /\ RaisedOutcome(Ended)) =>
            /\ StoreAndCallsKept
            /\ state' = "Aborted"
            /\ pc' = "save"
        /\ NoTurnAfterAbort
        /\ (state = "Aborted" /\ pc' = "done") => result' = "history" ]_vars

C4_Witness ==
    /\ pc = "done"
    /\ state = "Aborted"
    /\ result = "history"
    /\ Len(LoopCalls) = 3
    /\ IsQuestionCall(LoopCalls[3])
    /\ RaisedOutcome(LoopCalls[3].outcome)
    /\ Len(Appended) = 2
    /\ current_turn = 1

\* C5: when the Responder's call returns a reply that is empty or not text,
\* the step that handles it appends no assistant message, leaves the counter
\* alone and leaves the loop Aborted; the turn is not skipped and no turn
\* follows.
C5_UnusableAnswerAborts ==
    [][ /\ (pc = "await_expert"
            /\ (EmptyOutcome(Ended) \/ NonTextOutcome(Ended))) =>
            /\ StoreAndCallsKept
            /\ state' = "Aborted"
            /\ pc' = "save"
        /\ (state = "Aborted" /\ IsAnswerCall(LoopCalls[Len(LoopCalls)])) =>
            /\ state' = "Aborted"
            /\ messages' = messages
            /\ current_turn' = current_turn
            /\ SelectSeq(calls', IsLoopCall) = LoopCalls ]_vars

C5_Witness ==
    /\ pc = "done"
    /\ state = "Aborted"
    /\ Len(LoopCalls) = 2
    /\ LoopCalls[2].outcome = Returned(Str("\n "))
    /\ IsUser(messages[Len(messages)])
    /\ current_turn = 0

-----------------------------------------------------------------------------
(* C6 *)

\* C6: whatever the two roles do on each turn, the loop runs at most N
\* iterations, is left either Completed or Aborted, no exception leaves
\* run_conversation, and the run ends by returning the history.
C6_AlwaysTerminates ==
    /\ [](/\ Len(UserCalls) <= max_iterations
          /\ result # "raised"
          /\ LoopExited <=> state \in {"Completed", "Aborted"})
    /\ <>[](pc = "done" /\ result = "history")

C6_Witness ==
    /\ pc = "done"
    /\ result = "history"
    /\ state = "Aborted"
    /\ Len(UserCalls) = max_iterations
    /\ max_iterations = 3
    /\ NonTextOutcome(UserCalls[1].outcome)
    /\ EmptyOutcome(UserCalls[2].outcome)
    /\ RaisedOutcome(UserCalls[3].outcome)

-----------------------------------------------------------------------------
(* C7 *)

IsTranscriptWrite(w) == w.kind = "transcript"
IsTakeawaysWrite(w) == w.kind = "takeaways"
IsContentLine(l) == l.kind = "content"

TranscriptWrites == SelectSeq(fs_log, IsTranscriptWrite)
TakeawaysWrites == SelectSeq(fs_log, IsTakeawaysWrite)

\* The texts of the messages a formatted transcript holds, in order
ContentsOf(text) ==
    LET ls == SelectSeq(text, IsContentLine)
    IN  [i \in 1..Len(ls) |-> ls[i].text]

\* C7: no transcript is written while the loop runs; once the loop is left,
\* Completed or Aborted, exactly one write of the transcript is attempted
\* before the run returns, and it is of the history as it stands.
C7_TranscriptAlwaysAttempted ==
    /\ ~LoopExited => Len(TranscriptWrites) = 0
    /\ pc = "save" => Len(TranscriptWrites) = 0
    /\ pc \in {"await_takeaways", "done"} =>
         /\ Len(TranscriptWrites) = 1
         /\ IsTranscriptWrite(fs_log[1])
         /\ messages # <<>> =>
              ContentsOf(fs_log[1].content) =
                  [i \in 1..Len(messages) |-> messages[i].content]

C7_Witness ==
    /\ pc = "done"
    /\ state = "Aborted"
    /\ result = "history"
    /\ Len(TranscriptWrites) = 1
    /\ ~TranscriptWrites[1].ok
    /\ Len(messages) = 3
    /\ RaisedOutcome(LoopCalls[Len(LoopCalls)].outcome)

-----------------------------------------------------------------------------
(* C8, C9, C10 *)

\* A text that reports an error of the generation
ErrorFlagged(t) == startswith(t, "Error")

\* C8: a takeaways file is written only after the transcript was written
\* and with a summary that is not an error message; none is written when
\* the summarization call raised or gave an unusable reply.
C8_TakeawaysOnlyOnSuccess ==
    \A i \in 1..Len(fs_log) :
        IsTakeawaysWrite(fs_log[i]) =>
            /\ \E j \in 1..(i - 1) : IsTranscriptWrite(fs_log[j]) /\ fs_log[j].ok
            /\ takeaways.is_str
            /\ ~ErrorFlagged(takeaways.text)
            /\ Len(TakeawaysCalls) = 1
            /\ UsableOutcome(TakeawaysCalls[1].outcome)

\* C9: on a history that is not empty, generate_takeaways returns the
\* trimmed reply when the reply is usable and an error message when the
\* reply is empty once trimmed or is not text.
C9_TrimmedOrErrorFlagged ==
    \A i \in 1..Len(TakeawaysCalls) :
        LET o == TakeawaysCalls[i].outcome
        IN  /\ UsableOutcome(o) =>
                takeaways = Str(strip(o.final_output.text))
            /\ (EmptyOutcome(o) \/ NonTextOutcome(o)) =>
                takeaways.is_str /\ ErrorFlagged(takeaways.text)

\* C10: on an empty history generate_takeaways makes no call of the
\* inference service and returns an error message, nothing is raised, and
\* no takeaways file is written.
C10_EmptyHistoryNoTakeaways ==
    messages = <<>> =>
        /\ Len(TakeawaysCalls) = 0
        /\ Len(TakeawaysWrites) = 0
        /\ result # "raised"
        /\ (pc = "done" /\ output_file_path # NoPath) =>
             /\ takeaways.is_str
             /\ startswith(takeaways.text, "Error:")
             /\ result = "history"

C10_Witness ==
    /\ pc = "done"
    /\ messages = <<>>
    /\ output_file_path # NoPath
    /\ takeaways.is_str
    /\ Len(fs_log) = 1
    /\ fs_log[1].ok
    /\ Len(UserCalls) = 2

-----------------------------------------------------------------------------
(* C11 *)

TranscriptWriteFailed ==
    \E i \in 1..Len(fs_log) : IsTranscriptWrite(fs_log[i]) /\ ~fs_log[i].ok

\* C11: a failure to write the transcript reaches the caller of the run: a
\* run whose transcript could not be written does not end as a successful
\* run (run_conversation raises, and the process does not exit with 0).
C11_TranscriptFailureSurfaced ==
    (pc = "done" /\ TranscriptWriteFailed) =>
        /\ result = "raised"
        /\ cli_exit(result) # 0

-----------------------------------------------------------------------------
(* C16 *)

\* Exchanges of which question and answer were both appended
CompletedExchanges ==
    {i \in 1..Len(calls) : IsAnswerCall(calls[i]) /\ UsableOutcome(calls[i].outcome)}

\* Exchanges skipped for an unusable question
SkippedExchanges ==
    {i \in 1..Len(calls) :
        /\ IsQuestionCall(calls[i])
        /\ EmptyOutcome(calls[i].outcome) \/ NonTextOutcome(calls[i].outcome)}

\* C16: in every state of a run the turn counter is the number of completed
\* exchanges (question and answer appended) plus the number of skipped
\* exchanges; it starts at 0 and an aborting iteration adds nothing.
C16_CounterCountsExchanges ==
    /\ current_turn = Cardinality(CompletedExchanges) + Cardinality(SkippedExchanges)
    /\ Len(SelectSeq(messages, IsAssistant)) = Cardinality(CompletedExchanges)
    /\ calls = <<>> => current_turn = 0

C16_Witness ==
    /\ pc = "done"
    /\ state = "Aborted"
    /\ current_turn = 2
    /\ Cardinality(CompletedExchanges) = 1
    /\ Cardinality(SkippedExchanges) = 1
    /\ Len(UserCalls) = 3

-----------------------------------------------------------------------------
(* C20 *)

\* C20: a raised call of the Questioner is a soft failure (the turn is
\* skipped and the loop goes on), a raised call of the Responder ends the
\* run, and neither leaves run_conversation as an exception.
C20_QuestionerFailureSkipped ==
    [][ /\ (pc = "await_user" /\ RaisedOutcome(Ended)) =>
            /\ pc' = "loop"
            /\ current_turn' = current_turn + 1
            /\ state' # "Aborted"
        /\ (pc = "await_expert" /\ RaisedOutcome(Ended)) =>
            /\ state' = "Aborted"
            /\ pc' = "save"
        /\ result' # "raised" ]_vars

\* C20, amended: a raised call of the Questioner ends the run just as a
\* raised call of the Responder does (the loop is left Aborted, the counter
\* is not advanced), and neither leaves run_conversation as an exception.
C20_FailureEndsRun ==
    [][ /\ (pc \in {"await_user", "await_expert"} /\ RaisedOutcome(Ended)) =>
            /\ state' = "Aborted"
            /\ pc' = "save"
            /\ current_turn' = current_turn
        /\ result' # "raised" ]_vars

C20_Witness ==
    /\ pc = "done"
    /\ state = "Aborted"
    /\ result = "history"
    /\ Len(LoopCalls) = 1
    /\ IsQuestionCall(LoopCalls[1])
    /\ RaisedOutcome(LoopCalls[1].outcome)
    /\ current_turn = 0
    /\ max_iterations >= 2


------------------------------------------------------------------------------
(* The store's operations, one at a time (StoreSpec) *)

IsAddCall(o) == o.name = "add_message"
WellFormed(arg) == arg.role \in Roles /\ arg.content.is_str
Contains(s, sub) ==
    \E i \in 1..(Len(s) - Len(sub) + 1) : SubSeq(s, i, i + Len(sub) - 1) = sub

\* C12: add_message with a role of {system, user, assistant} and a text
\* content does not fail and appends exactly one message with that role and
\* content as the last element: the history is one longer, the messages that
\* were there are still there in the same order, and the turn counter is as
\* it was.
C12_AddAppendsOne ==
    [][ (IsAddCall(op') /\ WellFormed(op'.arg)) =>
            /\ ~op'.raised
            /\ Len(messages') = Len(messages) + 1
            /\ messages'[Len(messages')] =
                   Message(op'.arg.role, op'.arg.content.text)
            /\ SubSeq(messages', 1, Len(messages)) = messages
            /\ current_turn' = current_turn ]_vars

C12_Witness ==
    /\ IsAddCall(op) /\ ~op.raised
    /\ op.arg = [role |-> "assistant", content |-> Str("")]
    /\ Len(messages) = 2
    /\ messages[1].role = "user"
    /\ messages[2] = Message("assistant", "")

\* C13: add_message with a role outside {system, user, assistant}, or with a
\* content that is not text, raises, and the history and the turn counter are
\* exactly as they were.
C13_MalformedAddRejected ==
    [][ (IsAddCall(op') /\ ~WellFormed(op'.arg)) =>
            /\ op'.raised
            /\ messages' = messages
            /\ current_turn' = current_turn ]_vars

C13_Witness ==
    /\ IsAddCall(op) /\ op.raised
    /\ op.arg = [role |-> "user", content |-> None]
    /\ Len(messages) = 1

IsSnapshotMutation(o) ==
    o.name \in {"snapshot.append", "snapshot.pop", "snapshot.edit"}

\* C14: get_history hands out a defensive copy: a snapshot equals the history
\* at the time it is taken, and no mutation of a snapshot (appending or
\* removing elements, changing the role or the content of a message in it)
\* changes what the store returns.
C14_SnapshotIsDefensiveCopy ==
    [][ /\ op'.name = "get_history" =>
               deref(snapshot', messages') = get_history
        /\ IsSnapshotMutation(op') => get_history' = get_history ]_vars

\* C15: is_complete() is true exactly when the turn counter is >= the maximum
\* number of turns, and the call changes neither the counter nor the history.
C15_CompleteIffCounterReachedMax ==
    [][ op'.name = "is_complete" =>
            /\ op'.value <=> (current_turn >= max_iterations)
            /\ current_turn' = current_turn
            /\ messages' = messages ]_vars

C15_Witness ==
    /\ op.name = "is_complete" /\ op.value
    /\ current_turn > max_iterations

SeedText(f) == strip(f.content)

\* C17: right after the store is constructed with a seed file: a file that
\* exists with non-empty trimmed content gives a history of exactly one
\* message, of role system, whose content contains the trimmed seed text,
\* and a turn counter of 0; a file whose trimmed content is empty gives an
\* empty history; a path with no file raises and there is no store.
C17_SeededConstruction ==
    /\ op.name = "__init__" =>
        LET f == op.arg.file
        IN  /\ (f.exists /\ SeedText(f) # "") =>
                  /\ ~op.raised /\ pc # "no_store"
                  /\ Len(messages) = 1
                  /\ messages[1].role = "system"
                  /\ Contains(messages[1].content, SeedText(f))
                  /\ current_turn = 0
            /\ (f.exists /\ SeedText(f) = "") =>
                  /\ ~op.raised /\ pc # "no_store"
                  /\ messages = <<>>
                  /\ current_turn = 0
            /\ (f.name # "" /\ ~f.exists) => (op.raised /\ pc = "no_store")
    /\ pc = "no_store" => (op.name = "__init__" /\ op.raised /\ messages = <<>>)

C17_Witness ==
    /\ op.name = "__init__" /\ ~op.raised
    /\ op.arg.file.exists /\ op.arg.file.content = " hello\n"
    /\ Len(messages) = 1 /\ messages[1].role = "system"
    /\ Contains(messages[1].content, "hello")

------------------------------------------------------------------------------
(* The output manager's operations, one at a time (OutputSpec) *)

HasDot(s) == \E i \in 1..Len(s) : SubSeq(s, i, i) = "."

\* stem is the final component of path p without its last suffix: either the
\* component itself, when it has no dot after its first character or ends
\* with one, or what precedes the last dot
IsStemOf(stem, p) ==
    \E k \in 0..Len(p) :
        LET name == SubSeq(p, k + 1, Len(p))
        IN  /\ k > 0 => SubSeq(p, k, k) = "/"
            /\ ~\E i \in 1..Len(name) : SubSeq(name, i, i) = "/"
            /\ \/ /\ stem = name
                  /\ \/ Last(name) = "."
                     \/ ~HasDot(SubSeq(name, 2, Len(name)))
               \/ \E i \in 2..(Len(name) - 1) :
                     /\ SubSeq(name, i, i) = "."
                     /\ ~HasDot(SubSeq(name, i + 1, Len(name)))
                     /\ stem = SubSeq(name, 1, i - 1)

\* The transcript a takeaways file says it belongs to (its title line)
TitleOf(w) == w.content[1].text

\* C18: the file save_takeaways writes is named by the stem of the transcript
\* filename followed by "_takeaways.txt"; the name differs from the transcript
\* filename; and two saves for the same transcript filename give the same
\* name, whatever the takeaways text and whether or not the write succeeds.
C18_TakeawaysNameFromStem ==
    [][ op'.name = "save_takeaways" =>
            LET t == op'.arg.transcript_filename
                w == fs_log'[Len(fs_log')]
                n == Len(w.name) - Len("_takeaways.txt")
            IN  /\ IsTakeawaysWrite(w)
                /\ n >= 0
                /\ SubSeq(w.name, n + 1, Len(w.name)) = "_takeaways.txt"
                /\ IsStemOf(SubSeq(w.name, 1, n), t)
                /\ w.name # t
                /\ \A i \in 1..Len(fs_log) :
                       TitleOf(fs_log[i]) = TitleOf(w) => fs_log[i].name = w.name
      ]_vars

C18_Witness ==
    /\ op.name = "save_takeaways"
    /\ Len(fs_log) = 2
    /\ TitleOf(fs_log[1]) = "# Takeaways from: a.b.txt"
    /\ TitleOf(fs_log[2]) = "# Takeaways from: a.b.txt"
    /\ fs_log[1].content # fs_log[2].content
    /\ fs_log[1].ok /\ ~fs_log[2].ok
    /\ fs_log[2].name = "a.b_takeaways.txt"

------------------------------------------------------------------------------
(* Constructing the engine (EngineSpec) *)

NoCredential(o) == ~truthy(o.arg.api_key) /\ o.arg.env = ""

\* C19: an engine constructed with no credential in its configuration while
\* the environment holds none: neither agent can be created, the constructor
\* raises, there is no engine, and no inference call and no file write ever
\* happens.
C19_NoCredentialNoRun ==
    (op.name = "ConversationEngine" /\ NoCredential(op)) =>
        /\ create_user_agent(op.arg.api_key, op.arg.env).raised
        /\ create_expert_agent(op.arg.api_key, op.arg.env).raised
        /\ op.raised
        /\ pc = "no_engine"
        /\ state = "NotStarted"
        /\ calls = <<>>
        /\ fs_log = <<>>

C19_Witness ==
    /\ op.name = "ConversationEngine" /\ NoCredential(op)
    /\ op.arg.api_key = None
    /\ op.arg.file = NoFile /\ op.arg.mkdir_ok
    /\ op.raised /\ pc = "no_engine"

------------------------------------------------------------------------------
(* Further properties of a run (Spec) *)

SoftOutcome(o) == EmptyOutcome(o) \/ NonTextOutcome(o)

\* Every call of the Questioner that has ended gave an empty or non-text reply
OnlySoftQuestions ==
    \A i \in 1..Len(UserCalls) :
        UserCalls[i].outcome = Pending \/ SoftOutcome(UserCalls[i].outcome)

\* C21: as long as every reply of the Questioner is empty or not text, no
\* step changes the history and the Responder is not called in the loop; and
\* once the loop is left it is Completed, after exactly N calls of the
\* Questioner, with the turn counter at N.
C21_SoftFailuresStillComplete ==
    [][ OnlySoftQuestions' =>
            /\ messages' = messages
            /\ ExpertCalls' = <<>>
            /\ LoopExited' =>
                  /\ state' = "Completed"
                  /\ current_turn' = max_iterations
                  /\ Len(UserCalls') = max_iterations ]_vars

C21_Witness ==
    /\ pc = "done" /\ state = "Completed"
    /\ max_iterations = 3 /\ current_turn = 3
    /\ Len(UserCalls) = 3 /\ ExpertCalls = <<>>
    /\ EmptyOutcome(UserCalls[1].outcome)
    /\ NonTextOutcome(UserCalls[2].outcome)
    /\ EmptyOutcome(UserCalls[3].outcome)
    /\ Len(messages) = 1 /\ IsSystem(messages[1])

\* The message that stands in for an empty history in the Questioner's prompt
SyntheticGoal == Message("system", "The conversation goal is: " \o user_goal)

\* C22: a call made in the loop gets the whole history of that moment as its
\* prompt.  The Questioner's prompt is the history, or the one synthetic
\* system message stating the goal when the history is empty, and making the
\* call leaves the history as it is.  The Responder's prompt is the history
\* whose last message is the question just appended, the trimmed reply of
\* the call before.  The synthetic message is never in the history.
C22_PromptIsFullHistory ==
    [][ /\ (Len(calls') > Len(calls) /\ IsLoopCall(calls'[Len(calls')])) =>
              LET c == calls'[Len(calls')]
              IN  /\ IsQuestionCall(c) =>
                        /\ messages' = messages
                        /\ c.input = IF messages = <<>> THEN <<SyntheticGoal>>
                                     ELSE messages
                  /\ IsAnswerCall(c) =>
                        /\ c.input = messages'
                        /\ Len(messages') = Len(messages) + 1
                        /\ IsQuestionCall(calls'[Len(calls)])
                        /\ messages'[Len(messages')] =
                               Message("user", TrimmedReply(calls'[Len(calls)]))
        /\ \A i \in 1..Len(messages') : messages'[i] # SyntheticGoal ]_vars

C22_Witness ==
    /\ Len(calls) >= 3
    /\ calls[1].input = <<SyntheticGoal>>
    /\ SoftOutcome(calls[1].outcome)
    /\ calls[2].input = <<SyntheticGoal>>
    /\ IsAnswerCall(calls[3])
    /\ calls[3].input = <<Message("user", "Q1?")>>
    /\ messages = calls[3].input

\* C23: at most one call is outstanding, and it is the last one made; the
\* first call of the loop is to the Questioner; a call to the Responder comes
\* directly after a call to the Questioner that gave a usable reply, which is
\* the last message of the Responder's prompt; and after a call to the
\* Responder the loop's next call is to the Questioner again.
C23_StrictlySequential ==
    /\ \A i \in 1..Len(calls) : calls[i].outcome = Pending => i = Len(calls)
    /\ LoopCalls # <<>> => IsQuestionCall(LoopCalls[1])
    /\ \A j \in 1..Len(LoopCalls) :
          IsAnswerCall(LoopCalls[j]) =>
              /\ j > 1
              /\ IsQuestionCall(LoopCalls[j - 1])
              /\ UsableOutcome(LoopCalls[j - 1].outcome)
              /\ LoopCalls[j].input[Len(LoopCalls[j].input)] =
                     Message("user", TrimmedReply(LoopCalls[j - 1]))
    /\ \A i \in 1..Len(calls) :
          IsTakeawaysCall(calls[i]) =>
              /\ i = Len(calls)
              /\ LoopExited

C23_Witness ==
    /\ pc = "await_takeaways"
    /\ Len(LoopCalls) = 5
    /\ SoftOutcome(LoopCalls[1].outcome)
    /\ IsAnswerCall(LoopCalls[3])
    /\ IsAnswerCall(LoopCalls[5])
    /\ calls[Len(calls)].outcome = Pending

\* C24: no step of a run removes, reorders or rewrites a message of the
\* history: the history after a step is the history before it, or that with
\* one message added at the end.
C24_HistoryAppendOnly ==
    [][ \/ messages' = messages
        \/ /\ Len(messages') = Len(messages) + 1
           /\ SubSeq(messages', 1, Len(messages)) = messages ]_vars

C24_Witness ==
    /\ pc = "done"
    /\ Len(messages) = 5
    /\ IsSystem(messages[1])
    /\ TakeawaysCalls # <<>>

\* C25: a step in which the transcript write fails ends the run: no
\* summarization call is made, no takeaways file is written, and
\* run_conversation returns the history, with its messages and its turn
\* counter as they were.
C25_FailedTranscriptSkipsTakeaways ==
    [][ ( /\ pc = "save"
          /\ Len(fs_log') > Len(fs_log)
          /\ ~fs_log'[Len(fs_log) + 1].ok ) =>
            /\ pc' = "done"
            /\ result' = "history"
            /\ messages' = messages
            /\ current_turn' = current_turn
            /\ calls' = calls
            /\ TakeawaysCalls' = <<>>
            /\ TakeawaysWrites' = <<>>
            /\ Len(fs_log') = Len(fs_log) + 1 ]_vars

C25_Witness ==
    /\ pc = "done" /\ result = "history"
    /\ TranscriptWriteFailed
    /\ Len(fs_log) = 1
    /\ Len(messages) >= 2 /\ current_turn >= 1
    /\ TakeawaysCalls = <<>>

\* The summarization call raised, or the takeaways file could not be written
TakeawaysFailed ==
    \/ \E i \in 1..Len(TakeawaysCalls) : RaisedOutcome(TakeawaysCalls[i].outcome)
    \/ \E i \in 1..Len(TakeawaysWrites) : ~TakeawaysWrites[i].ok

\* C26: nothing written after the transcript goes to the transcript's file,
\* so the file holds what save_transcript wrote, whether or not the
\* takeaways could be generated and written; and a run whose takeaways
\* failed still returns the history.
C26_TakeawaysFailureSparesTranscript ==
    /\ \A i \in 1..Len(fs_log) :
          IsTranscriptWrite(fs_log[i]) =>
              \A j \in (i + 1)..Len(fs_log) :
                  /\ IsTakeawaysWrite(fs_log[j])
                  /\ fs_log[j].name # fs_log[i].name
    /\ (pc = "done" /\ TakeawaysFailed) =>
          /\ result = "history"
          /\ TranscriptWrites # <<>>
          /\ TranscriptWrites[1].ok
          /\ TranscriptWrites[1].content = format_conversation(messages, current_turn)

C26_Witness ==
    /\ pc = "done" /\ result = "history"
    /\ Len(fs_log) = 2
    /\ IsTranscriptWrite(fs_log[1]) /\ fs_log[1].ok
    /\ IsTakeawaysWrite(fs_log[2]) /\ ~fs_log[2].ok
    /\ Len(messages) >= 2

\* C27: in a written transcript the heading of the message at position i
\* (from 1) shows turn 0 for a system message and otherwise the number n
\* with 2n <= i + 1 < 2n + 2.
C27_DisplayedTurn ==
    \A k \in 1..Len(fs_log) :
        (IsTranscriptWrite(fs_log[k]) /\ messages # <<>>) =>
            /\ Len(fs_log[k].content) = 3 + 3 * Len(messages)
            /\ \A i \in 1..Len(messages) :
                  LET h == fs_log[k].content[3 * i + 1]
                  IN  /\ h.kind = "heading"
                      /\ IF IsSystem(messages[i]) THEN h.n = 0
                         ELSE 2 * h.n <= i + 1 /\ i + 1 < 2 * h.n + 2

C27_Witness ==
    /\ pc = "done"
    /\ Len(messages) = 5 /\ IsSystem(messages[1])
    /\ TranscriptWrites # <<>>
    /\ TranscriptWrites[1].content[4].n = 0
    /\ TranscriptWrites[1].content[7].n = 1
    /\ TranscriptWrites[1].content[16].n = 3

UserMinusAssistant ==
    Len(SelectSeq(messages, IsUser)) - Len(SelectSeq(messages, IsAssistant))

AbortedInAnswerPhase ==
    /\ state = "Aborted"
    /\ LoopCalls # <<>>
    /\ IsAnswerCall(LoopCalls[Len(LoopCalls)])

\* C30: the messages the loop appended alternate user, assistant, user, ...
\* The number of user messages minus the number of assistant messages is 0
\* at the start of an iteration, while the Questioner is called, and at
\* Completed; it is 1 exactly while the Responder is called and after an
\* abort in the answer phase; it is never anything else.
C30_StrictAlternation ==
    /\ \A i \in 1..Len(Appended) :
          Appended[i].role = IF i % 2 = 1 THEN "user" ELSE "assistant"
    /\ UserMinusAssistant \in {0, 1}
    /\ pc \in {"loop", "await_user"} => UserMinusAssistant = 0
    /\ state = "Completed" => UserMinusAssistant = 0
    /\ UserMinusAssistant = 1 <=> (pc = "await_expert" \/ AbortedInAnswerPhase)

C30_Witness ==
    /\ pc = "done" /\ AbortedInAnswerPhase
    /\ UserMinusAssistant = 1
    /\ Len(Appended) = 3

------------------------------------------------------------------------------
(* Runs that share an output directory (OutputSpec) *)

\* C28: no two transcripts saved in one output directory have the same
\* filename: generate_filename never returns a name it returned before, so
\* no run writes to the file of another.
C28_TranscriptNamesUnique ==
    \A i, j \in 1..Len(fs_log) :
        ( /\ i < j
          /\ IsTranscriptWrite(fs_log[i])
          /\ IsTranscriptWrite(fs_log[j]) ) => fs_log[i].name # fs_log[j].name

------------------------------------------------------------------------------
(* The credential of the process (EngineSpec) *)

\* The construction got as far as creating agents
AgentsReached(o) ==
    \/ o.name = "create_user_agent"
    \/ o.name = "ConversationEngine" /\ ~init_raises(o.arg.file) /\ o.arg.mkdir_ok

\* C29: the credential of the process changes only when agents are
\* constructed: then it becomes the credential of that configuration if it
\* has one and stays what it was if it has none.  No other step changes it
\* and no step clears it, so a run started under one credential goes on
\* under the credential of whichever construction came last.
C29_CredentialLastWriterWins ==
    [][ /\ IF op' # op
           THEN env_key' = IF AgentsReached(op') /\ truthy(op'.arg.api_key)
                           THEN op'.arg.api_key.text
                           ELSE env_key
           ELSE env_key' = env_key
        /\ env_key # "" => env_key' # "" ]_vars

C29_Witness ==
    /\ pc = "await_expert"
    /\ calls # <<>>
    /\ op.name = "create_user_agent" /\ ~op.raised
    /\ op.arg.env = "sk-config"
    /\ op.arg.api_key = Str("sk-other")
    /\ env_key = "sk-other"

------------------------------------------------------------------------------
(* The counter, the stored texts, the summarization and the turn labels (Spec) *)

CounterInRange ==
    /\ current_turn >= 0
    /\ current_turn <= max_iterations
    /\ state = "Completed" => current_turn = max_iterations
    /\ state = "Aborted" => current_turn < max_iterations
    /\ LoopExited => (state = "Completed" <=> current_turn = max_iterations)

\* C31: the turn counter never decreases and never exceeds the maximum N;
\* once the loop is left it is Completed exactly when the counter is N, and
\* in Aborted the counter is below N.
C31_CounterMonotoneAndBounded ==
    [][ /\ current_turn' >= current_turn
        /\ CounterInRange
        /\ CounterInRange' ]_vars

C31_Witness ==
    /\ pc = "done" /\ state = "Aborted"
    /\ max_iterations = 3 /\ current_turn = 2

WhitespaceOnly(o) == EmptyOutcome(o) /\ o.final_output.text # ""

\* C32: every user or assistant message in the history is non-empty text
\* without leading or trailing whitespace; a reply of whitespace only is not
\* stored: from the Questioner it skips the turn (the counter advances and
\* the loop goes on), from the Responder it aborts the loop.
C32_StoredTextsTrimmed ==
    [][ /\ \A i \in 1..Len(Appended') :
              /\ Appended'[i].content # ""
              /\ strip(Appended'[i].content) = Appended'[i].content
        /\ (pc = "await_user" /\ WhitespaceOnly(Ended)) =>
              /\ messages' = messages
              /\ current_turn' = current_turn + 1
              /\ pc' = "loop"
              /\ state' = state
        /\ (pc = "await_expert" /\ WhitespaceOnly(Ended)) =>
              /\ messages' = messages
              /\ current_turn' = current_turn
              /\ pc' = "save"
              /\ state' = "Aborted" ]_vars

C32_Witness ==
    /\ pc = "done" /\ state = "Aborted"
    /\ Len(LoopCalls) = 5
    /\ WhitespaceOnly(LoopCalls[1].outcome)
    /\ WhitespaceOnly(LoopCalls[5].outcome)
    /\ Appended = <<Message("user", "Q1?"), Message("assistant", "A1."),
                    Message("user", "Q2?")>>

SummarizationInstruction == Message("user", takeaway_prompt)

\* C33: once the loop is left no step changes the messages or the turn
\* counter, whatever the summarization call gives; the instruction to
\* summarize is in the prompt of that call, after the whole history, and
\* never in the history; and there is at most one summarization call.
C33_TakeawaysLeaveStoreAlone ==
    [][ /\ LoopExited =>
              /\ messages' = messages
              /\ current_turn' = current_turn
        /\ \A i \in 1..Len(messages') : messages'[i] # SummarizationInstruction
        /\ Len(TakeawaysCalls') <= 1
        /\ \A i \in 1..Len(TakeawaysCalls') :
              TakeawaysCalls'[i].input = messages' \o <<SummarizationInstruction>>
      ]_vars

C33_Witness ==
    /\ pc = "done" /\ result = "history"
    /\ Len(TakeawaysCalls) = 1
    /\ RaisedOutcome(TakeawaysCalls[1].outcome)
    /\ Len(messages) = 3
    /\ TakeawaysCalls[1].input = messages \o <<SummarizationInstruction>>

\* How many system messages the history begins with
SeedLen == Len(SelectSeq(messages, IsSystem))

\* The turn number a written transcript shows for the message at position i
LabelOf(w, i) == w.content[3 * i + 1].n

\* C34: in every transcript the question and the answer of one exchange are
\* labelled with the same turn number, with or without a seed message and
\* with or without skipped turns.
C34_ExchangeSharesLabel ==
    \A k \in 1..Len(fs_log) :
        (IsTranscriptWrite(fs_log[k]) /\ messages # <<>>) =>
            \A e \in 1..(Len(Appended) \div 2) :
                LabelOf(fs_log[k], SeedLen + 2 * e - 1) =
                    LabelOf(fs_log[k], SeedLen + 2 * e)
====
